---- MODULE Spec2Model ----
(***************************************************************************)
(* A REST API for one "post" resource over a document store.               *)
(*                                                                         *)
(*   server factory  ->  PostsController  ->  Resource  ->  store client   *)
(*                                        ->  Parser                       *)
(*                                                                         *)
(* A request is received by a route handler, which calls the controller,   *)
(* which issues one call to the store client and waits for its promise.    *)
(* When the promise settles the parser translates the response and the     *)
(* route handler writes the reply.                                         *)
(***************************************************************************)
EXTENDS Integers, Sequences, FiniteSets, TLC

VARIABLES resource, reqs, docs, nextId, last

vars == <<resource, reqs, docs, nextId, last>>

-----------------------------------------------------------------------------
(* Values *)

\* JavaScript's undefined
Undefined == "undefined"

\* the longest hit list of a search response
MaxHits == 2

\* the requests that may be in flight at the same time
Reqs == {"r1", "r2"}

\* the ids the store assigns, in the order it assigns them
StoreIds == <<"A1", "A2">>

StoreIdSet == {StoreIds[i] : i \in 1..Len(StoreIds)}

\* the ids a client may put in a request path
PathIds == {"A1", "c1"}

\* the attribute names of a post and the values a client or a stored
\* document may give them
Keys == {"id", "author"}

AttrVals(k) == IF k = "id" THEN {"c1"} ELSE {"Smith", "Rogers"}

AllVals == UNION {AttrVals(k) : k \in Keys}

\* plain objects: attrs of a request body, _source of a stored document
Objects ==
  {o \in UNION {[S -> AllVals] : S \in SUBSET Keys} :
     \A k \in DOMAIN o : o[k] \in AttrVals(k)}

EmptyObject == [k \in {} |-> Undefined]

\* _.merge(object, source) on flat objects: every property of source is
\* assigned to object, except that an undefined property of source never
\* replaces a property object already has
Merge(object, source) ==
  [k \in (DOMAIN object) \cup (DOMAIN source) |->
     IF k \in DOMAIN source /\ source[k] # Undefined THEN source[k]
     ELSE IF k \in DOMAIN object THEN object[k]
     ELSE Undefined]

\* the JSON text of an object keeps only the defined properties
Json(o) == [k \in {j \in DOMAIN o : o[j] # Undefined} |-> o[k]]

\* reading a property an object does not have gives undefined
Prop(o, k) == IF k \in DOMAIN o THEN o[k] ELSE Undefined

\* the values a promise settles with: a post, a list of posts, a bare id
\* or an error
PostV(o) == [t |-> "post", post |-> o]

PostsV(s) == [t |-> "posts", posts |-> s]

IdV(i) == [t |-> "id", id |-> i]

ErrorV(e) == [t |-> "error", error |-> e]

NoneV == [t |-> "none"]

Fulfilled(v) == [state |-> "fulfilled", value |-> v]

Rejected(v) == [state |-> "rejected", value |-> v]

Pending == [state |-> "pending", value |-> NoneV]

-----------------------------------------------------------------------------
(* The store client's responses *)

\* the hits a search response may carry
Hits ==
  { [_id |-> "A1", _source |-> [author |-> "Smith"]],
    [_id |-> "A2", _source |-> [author |-> "Rogers"]],
    [_id |-> "A2", _source |-> [id |-> "c1", author |-> "Smith"]],
    [_id |-> "A1", _source |-> EmptyObject] }

HitSeqs == UNION {[1..n -> Hits] : n \in 0..MaxHits}

SearchResponses == {[hits |-> [hits |-> s]] : s \in HitSeqs} \cup {EmptyObject}

IndexResponses == {[_id |-> i] : i \in StoreIdSet} \cup {EmptyObject}

GetResponses ==
  {[_id |-> i, found |-> TRUE, _source |-> o] : i \in StoreIdSet, o \in Objects}
    \cup {[_id |-> i, found |-> FALSE] : i \in StoreIdSet}
    \cup {[found |-> FALSE]}

UpdateResponses == {[_id |-> i] : i \in StoreIdSet} \cup {EmptyObject}

DeleteResponses ==
  {[_id |-> i, found |-> b] : i \in StoreIdSet, b \in BOOLEAN}

Responses(method) ==
  CASE method = "search" -> SearchResponses
    [] method = "index" -> IndexResponses
    [] method = "get" -> GetResponses
    [] method = "update" -> UpdateResponses
    [] method = "delete" -> DeleteResponses

-----------------------------------------------------------------------------
(* Resource *)

ResourceNew(client, indexName, type) ==
  [client |-> client, baseParams |-> [index |-> indexName, type |-> type]]

ResourceSearch(rs) == [method |-> "search", params |-> rs.baseParams]

ResourceCreate(rs, attrs) ==
  [method |-> "index", params |-> Merge([body |-> attrs], rs.baseParams)]

ResourceGet(rs, id) ==
  [method |-> "get", params |-> Merge([id |-> id], rs.baseParams)]

\* an update that passes attrs as body, the way create does
ResourceUpdateAsBody(rs, id, attrs) ==
  [method |-> "update",
   params |-> Merge([id |-> id, body |-> attrs], rs.baseParams)]

ResourceUpdate(rs, id, attrs) ==
  [method |-> "update",
   params |-> Merge([id |-> id, doc |-> attrs], rs.baseParams)]

ResourceDelete(rs, id) ==
  [method |-> "delete", params |-> Merge([id |-> id], rs.baseParams)]

\* a Resource whose methods merge the id of the call into baseParams
ResourceThisMerged(rs, call) ==
  [rs EXCEPT !.baseParams =
     IF "id" \in DOMAIN call.params
     THEN Merge(rs.baseParams, [id |-> call.params.id])
     ELSE rs.baseParams]

\* a Resource whose update merges its id into baseParams
ResourceThisMergedOnUpdate(rs, call) ==
  [rs EXCEPT !.baseParams =
     IF call.method = "update"
     THEN Merge(rs.baseParams, [id |-> call.params.id])
     ELSE rs.baseParams]

\* a Resource that turns a rejection of the client into a not-found
ResourceReturnNotFound(promise) ==
  IF promise.state = "rejected" THEN Rejected(IdV(Undefined)) ELSE promise

\* the Resource after one of its methods ran: every method merges
\* baseParams into a fresh object and assigns nothing to this
ResourceThis(rs, call) == rs

\* return this.client.method(params): the promise of the client itself
ResourceReturn(promise) == promise

-----------------------------------------------------------------------------
(* Parser *)

\* if (res.found)
IsFound(res) == "found" \in DOMAIN res /\ res.found

\* if (res._id)
HasId(res) == Prop(res, "_id") # Undefined /\ Prop(res, "_id") # ""

\* a parser that hands a single hit back as a bare post
parseSearchResultUnwrap(res) ==
  IF "hits" \notin DOMAIN res
  THEN Rejected(ErrorV("TypeError"))
  ELSE IF Len(res.hits.hits) = 1
  THEN Fulfilled(PostV(Merge(res.hits.hits[1]._source,
                             [id |-> res.hits.hits[1]._id])))
  ELSE Fulfilled(PostsV(
         [k \in DOMAIN res.hits.hits |->
            Merge(res.hits.hits[k]._source,
                  [id |-> res.hits.hits[k]._id])]))

\* a parser that merges the source into the id, as parseGetResult does
parseSearchResultSourceWins(res) ==
  IF "hits" \notin DOMAIN res
  THEN Rejected(ErrorV("TypeError"))
  ELSE Fulfilled(PostsV(
         [k \in DOMAIN res.hits.hits |->
            Merge([id |-> res.hits.hits[k]._id],
                  res.hits.hits[k]._source)]))

parseSearchResult(res) ==
  IF "hits" \notin DOMAIN res
  THEN Rejected(ErrorV("TypeError"))
  ELSE Fulfilled(PostsV(
         [k \in DOMAIN res.hits.hits |->
            Merge(res.hits.hits[k]._source,
                  [id |-> res.hits.hits[k]._id])]))

\* a parser that answers with the id alone
parseCreateResultIdOnly(attrs, res) ==
  Fulfilled(PostV([id |-> Prop(res, "_id")]))

parseCreateResult(attrs, res) ==
  Fulfilled(PostV(Merge([id |-> Prop(res, "_id")], attrs)))

parseGetResult(res) ==
  IF IsFound(res)
  THEN Fulfilled(PostV(Merge([id |-> Prop(res, "_id")],
                             Prop(res, "_source"))))
  ELSE Rejected(IdV(Prop(res, "_id")))

\* a parser that resolves an update with the id alone
parseUpdateResultIdOnly(id, attrs, res) ==
  IF HasId(res)
  THEN Fulfilled(PostV([id |-> res._id]))
  ELSE Rejected(IdV(id))

parseUpdateResult(id, attrs, res) ==
  IF HasId(res)
  THEN Fulfilled(PostV(Merge([id |-> res._id], attrs)))
  ELSE Rejected(IdV(id))

\* a parser that resolves with the id of the response
parseDeleteResultStoreId(id, res) ==
  IF IsFound(res)
  THEN Fulfilled(IdV(Prop(res, "_id")))
  ELSE Rejected(IdV(id))

parseDeleteResult(id, res) ==
  IF IsFound(res)
  THEN Fulfilled(IdV(id))
  ELSE Rejected(IdV(id))

\* a parser that takes the hits out of the response as it walks them
ParserEffectConsumes(route, attrs, res) ==
  [res |-> IF route = "index" /\ "hits" \in DOMAIN res
           THEN [hits |-> [hits |-> <<>>]]
           ELSE res,
   attrs |-> attrs]

\* the arguments of the parser after it ran: _.merge writes into its first
\* argument, which is hit._source in parseSearchResult and a fresh object in
\* the other functions
ParserEffect(route, attrs, res) ==
  [res |-> IF route = "index" /\ "hits" \in DOMAIN res
           THEN [hits |->
                   [hits |->
                      [k \in DOMAIN res.hits.hits |->
                         [res.hits.hits[k] EXCEPT
                            !._source = Merge(@, [id |-> res.hits.hits[k]._id])]]]]
           ELSE res,
   attrs |-> attrs]

-----------------------------------------------------------------------------
(* PostsController *)

Routes == {"index", "create", "show", "update", "destroy"}

\* the first half of each action: the call it makes on the resource
ControllerCall(rs, route, id, attrs) ==
  CASE route = "index" -> ResourceSearch(rs)
    [] route = "create" -> ResourceCreate(rs, attrs)
    [] route = "show" -> ResourceGet(rs, id)
    [] route = "update" -> ResourceUpdate(rs, id, attrs)
    [] route = "destroy" -> ResourceDelete(rs, id)

\* the calls an action makes on the client: one, through the resource
ControllerCalls(rs, route, id, attrs) ==
  <<ControllerCall(rs, route, id, attrs)>>

\* the second half: then(parser) on the settled client promise; a rejection
\* of the client passes through unchanged
ControllerThen(route, id, attrs, promise) ==
  IF promise.state # "fulfilled" THEN promise
  ELSE CASE route = "index" -> parseSearchResult(promise.value)
         [] route = "create" -> parseCreateResult(attrs, promise.value)
         [] route = "show" -> parseGetResult(promise.value)
         [] route = "update" -> parseUpdateResult(id, attrs, promise.value)
         [] route = "destroy" -> parseDeleteResult(id, promise.value)

-----------------------------------------------------------------------------
(* PostsController before Resource and Parser were taken out of it *)

InlineNew(client, indexName, type) ==
  [client |-> client, indexName |-> indexName, type |-> type]

\* the call each action makes on this.client
InlineCall(this, route, id, attrs) ==
  CASE route = "index" ->
         [method |-> "search",
          params |-> [index |-> this.indexName, type |-> this.type]]
    [] route = "create" ->
         [method |-> "index",
          params |-> [index |-> this.indexName, type |-> this.type,
                      body |-> attrs]]
    [] route = "show" ->
         [method |-> "get",
          params |-> [index |-> this.indexName, type |-> this.type,
                      id |-> id]]
    [] route = "update" ->
         [method |-> "update",
          params |-> [index |-> this.indexName, type |-> this.type,
                      id |-> id, doc |-> attrs]]
    [] route = "destroy" ->
         [method |-> "delete",
          params |-> [index |-> this.indexName, type |-> this.type,
                      id |-> id]]

InlineCalls(this, route, id, attrs) == <<InlineCall(this, route, id, attrs)>>

\* the handler each action chains on the promise of its call
InlineThen(route, id, attrs, promise) ==
  IF promise.state # "fulfilled" THEN promise
  ELSE LET res == promise.value
       IN CASE route = "index" ->
                 IF "hits" \notin DOMAIN res
                 THEN Rejected(ErrorV("TypeError"))
                 ELSE Fulfilled(PostsV(
                        [k \in DOMAIN res.hits.hits |->
                           Merge(res.hits.hits[k]._source,
                                 [id |-> res.hits.hits[k]._id])]))
            [] route = "create" ->
                 Fulfilled(PostV(Merge([id |-> Prop(res, "_id")], attrs)))
            [] route = "show" ->
                 IF IsFound(res)
                 THEN Fulfilled(PostV(Merge([id |-> Prop(res, "_id")],
                                            Prop(res, "_source"))))
                 ELSE Rejected(IdV(id))
            [] route = "update" ->
                 IF HasId(res)
                 THEN Fulfilled(PostV(Merge([id |-> res._id], attrs)))
                 ELSE Rejected(IdV(id))
            [] route = "destroy" ->
                 IF IsFound(res)
                 THEN Fulfilled(IdV(id))
                 ELSE Rejected(IdV(id))

-----------------------------------------------------------------------------
(* Server factory *)

Reply(status, body) == [status |-> status, body |-> body]

\* res.send(status, result) writes result as JSON
BodyOf(v) ==
  CASE v.t = "post" -> PostV(Json(v.post))
    [] v.t = "posts" -> PostsV([k \in DOMAIN v.posts |-> Json(v.posts[k])])
    [] OTHER -> v

\* promise.then((result) => res.send(...)): the replies written so far and
\* the promise the chain continues with
SendThen(promise, reply) ==
  IF promise.state = "fulfilled"
  THEN [replies |-> <<reply>>, promise |-> Fulfilled(NoneV)]
  ELSE [replies |-> <<>>, promise |-> promise]

\* a chain whose last handler runs whatever the promise settled with
Catch404Always(chain) ==
  [replies |-> Append(chain.replies, Reply(404, NoneV)),
   promise |-> Fulfilled(NoneV)]

\* a rejection handler that sends the reason along
Catch404Echo(chain) ==
  IF chain.promise.state = "rejected"
  THEN [replies |-> Append(chain.replies, Reply(404, chain.promise.value)),
        promise |-> Fulfilled(NoneV)]
  ELSE chain

\* chain.catch(() => res.send(404))
Catch404(chain) ==
  IF chain.promise.state = "rejected"
  THEN [replies |-> Append(chain.replies, Reply(404, NoneV)),
        promise |-> Fulfilled(NoneV)]
  ELSE chain

\* a list route with the rejection handler of the /posts/:id routes
GetPostsCatch(promise) ==
  Catch404(SendThen(promise, Reply(200, BodyOf(promise.value))))

GetPosts(promise) ==
  SendThen(promise, Reply(200, BodyOf(promise.value)))

\* a create route that answers 200
PostPostsOk(promise) ==
  SendThen(promise, Reply(200, BodyOf(promise.value)))

\* a create route with the rejection handler of the /posts/:id routes
PostPostsCatch(promise) ==
  Catch404(SendThen(promise, Reply(201, BodyOf(promise.value))))

PostPosts(promise) ==
  SendThen(promise, Reply(201, BodyOf(promise.value)))

GetPostsId(promise) ==
  Catch404(SendThen(promise, Reply(200, BodyOf(promise.value))))

\* the update route without a rejection handler
PostPostsIdNoCatch(promise) ==
  SendThen(promise, Reply(200, BodyOf(promise.value)))

PostPostsId(promise) ==
  Catch404(SendThen(promise, Reply(200, BodyOf(promise.value))))

\* a delete route that sends what destroy resolved
DelPostsIdResult(id, promise) ==
  Catch404(SendThen(promise, Reply(200, BodyOf(promise.value))))

DelPostsId(id, promise) ==
  Catch404(SendThen(promise, Reply(200, PostV([id |-> id]))))

\* a server that hands the whole request body to create and update
ServerInvokeWholeBody(route, id, post) ==
  CASE route = "index" -> <<[action |-> "index"]>>
    [] route = "create" -> <<[action |-> "create", attrs |-> [post |-> post]]>>
    [] route = "show" -> <<[action |-> "show", id |-> id]>>
    [] route = "update" ->
         <<[action |-> "update", id |-> id, attrs |-> [post |-> post]]>>
    [] route = "destroy" -> <<[action |-> "destroy", id |-> id]>>

\* the controller methods a route handler invokes, with their arguments:
\* req.params.id is the id of the path and req.params.post the post of the
\* body
ServerInvoke(route, id, post) ==
  CASE route = "index" -> <<[action |-> "index"]>>
    [] route = "create" -> <<[action |-> "create", attrs |-> post]>>
    [] route = "show" -> <<[action |-> "show", id |-> id]>>
    [] route = "update" -> <<[action |-> "update", id |-> id, attrs |-> post]>>
    [] route = "destroy" -> <<[action |-> "destroy", id |-> id]>>

\* the replies a route writes once the controller's promise has settled
ServerReplies(route, id, promise) ==
  CASE route = "index" -> GetPosts(promise).replies
    [] route = "create" -> PostPosts(promise).replies
    [] route = "show" -> GetPostsId(promise).replies
    [] route = "update" -> PostPostsId(promise).replies
    [] route = "destroy" -> DelPostsId(id, promise).replies

-----------------------------------------------------------------------------
(* Requests *)

NoCall == [method |-> "none", params |-> EmptyObject]

Idle ==
  [pc |-> "idle", route |-> "none", id |-> Undefined, attrs |-> EmptyObject,
   call |-> NoCall, client |-> Pending, outcome |-> Pending,
   replies |-> <<>>, calls |-> <<>>, invoked |-> <<>>, returned |-> Pending,
   after |-> [res |-> EmptyObject, attrs |-> EmptyObject]]

\* the values a route takes from the request: the path id and body.post
RouteIds(route) == IF route \in {"index", "create"} THEN {Undefined} ELSE PathIds

RouteAttrs(route) ==
  IF route \in {"create", "update"} THEN Objects ELSE {EmptyObject}

\* app/client.js: the client of the store
Client == "client"

\* the first start.js: new PostsController(), before there was a client
StartNoClient == ResourceNew(Undefined, Undefined, Undefined)

\* start.js: new PostsController(client, 'node_api', 'posts'), whose
\* constructor hands its three arguments to new Resource
Start == ResourceNew(Client, "node_api", "posts")

Init ==
  /\ resource = Start
  /\ reqs = [r \in Reqs |-> Idle]
  /\ docs = [i \in StoreIdSet |-> [stored |-> FALSE, source |-> EmptyObject]]
  /\ nextId = 1
  /\ last = [r \in Reqs |-> Idle]

\* a handler that answers before the promise of its call has settled
ReceiveEager(r, route, id, attrs) ==
  /\ reqs[r].pc = "idle"
  /\ reqs' = [reqs EXCEPT ![r] =
                [Idle EXCEPT !.pc = "awaiting", !.route = route, !.id = id,
                             !.attrs = attrs,
                             !.invoked = ServerInvoke(route, id, attrs),
                             !.call = ControllerCall(resource, route, id,
                                                     attrs),
                             !.calls = ControllerCalls(resource, route, id,
                                                       attrs),
                             !.replies = <<Reply(200, NoneV)>>]]
  /\ resource' = ResourceThis(resource,
                              ControllerCall(resource, route, id, attrs))
  /\ UNCHANGED <<docs, nextId, last>>

\* a request arrives: the route handler calls the controller action, which
\* calls the resource, which calls the client and gets a pending promise
Receive(r, route, id, attrs) ==
  /\ reqs[r].pc = "idle"
  /\ reqs' = [reqs EXCEPT ![r] =
                [Idle EXCEPT !.pc = "awaiting", !.route = route, !.id = id,
                             !.attrs = attrs,
                             !.invoked = ServerInvoke(route, id, attrs),
                             !.call = ControllerCall(resource, route, id,
                                                     attrs),
                             !.calls = ControllerCalls(resource, route, id,
                                                       attrs)]]
  /\ resource' = ResourceThis(resource,
                              ControllerCall(resource, route, id, attrs))
  /\ UNCHANGED <<docs, nextId, last>>

\* the client's promise is fulfilled with a response
ClientFulfil(r, res) ==
  /\ reqs[r].pc = "awaiting"
  /\ res \in Responses(reqs[r].call.method)
  /\ reqs' = [reqs EXCEPT ![r].pc = "settled", ![r].client = Fulfilled(res)]
  /\ UNCHANGED <<resource, docs, nextId, last>>

\* the client's promise is rejected (network error, store exception)
ClientReject(r) ==
  /\ reqs[r].pc = "awaiting"
  /\ reqs' = [reqs EXCEPT ![r].pc = "settled",
                          ![r].client = Rejected(ErrorV("store"))]
  /\ UNCHANGED <<resource, docs, nextId, last>>

\* the handlers chained on the client's promise run: the parser settles the
\* controller's promise and the route writes its reply
Resume(r) ==
  /\ reqs[r].pc = "settled"
  /\ LET q == reqs[r]
         returned == ResourceReturn(q.client)
         outcome == ControllerThen(q.route, q.id, q.attrs, returned)
     IN reqs' = [reqs EXCEPT ![r].pc = "done",
                             ![r].returned = returned,
                             ![r].outcome = outcome,
                             ![r].after =
                                IF returned.state = "fulfilled"
                                THEN ParserEffect(q.route, q.attrs,
                                                  returned.value)
                                ELSE q.after,
                             ![r].replies =
                                q.replies \o
                                  ServerReplies(q.route, q.id, outcome)]
  /\ UNCHANGED <<resource, docs, nextId, last>>

\* the request is over and its values are discarded
Close(r) ==
  /\ reqs[r].pc = "done"
  /\ reqs' = [reqs EXCEPT ![r] = Idle]
  /\ UNCHANGED <<resource, docs, nextId, last>>

Next ==
  \E r \in Reqs :
    \/ \E route \in Routes :
         \E id \in RouteIds(route), attrs \in RouteAttrs(route) :
           Receive(r, route, id, attrs)
    \/ \E res \in UNION {Responses(m) :
                           m \in {"search", "index", "get", "update",
                                  "delete"}} :
         ClientFulfil(r, res)
    \/ ClientReject(r)
    \/ Resume(r)
    \/ Close(r)

Spec == Init /\ [][Next]_vars

\* the scheduler runs every handler chained on a settled promise
FairSpec == Spec /\ \A r \in Reqs : WF_vars(Resume(r))

-----------------------------------------------------------------------------
(* A store that keeps the documents: one client session, r1, sends its     *)
(* requests one after the other and the store answers each call from its   *)
(* contents.                                                               *)

Session == "r1"

NoDoc == [stored |-> FALSE, source |-> EmptyObject]

IsStored(d, id) == id \in DOMAIN d /\ d[id].stored

\* the stored documents as search hits, in id order
RECURSIVE StoredHits(_, _)
StoredHits(d, i) ==
  IF i > Len(StoreIds) THEN <<>>
  ELSE (IF d[StoreIds[i]].stored
        THEN <<[_id |-> StoreIds[i], _source |-> d[StoreIds[i]].source]>>
        ELSE <<>>) \o StoredHits(d, i + 1)

\* the response of the store to a call
StoreResponse(d, n, call) ==
  CASE call.method = "search" -> [hits |-> [hits |-> StoredHits(d, 1)]]
    [] call.method = "index" -> [_id |-> StoreIds[n]]
    [] call.method = "get" ->
         IF IsStored(d, call.params.id)
         THEN [_id |-> call.params.id, found |-> TRUE,
               _source |-> d[call.params.id].source]
         ELSE [_id |-> call.params.id, found |-> FALSE]
    [] call.method = "update" ->
         IF IsStored(d, call.params.id)
         THEN [_id |-> call.params.id]
         ELSE EmptyObject
    [] call.method = "delete" ->
         [_id |-> call.params.id, found |-> IsStored(d, call.params.id)]

\* the documents after the call
StoreDocs(d, n, call) ==
  CASE call.method = "index" ->
         [d EXCEPT ![StoreIds[n]] =
            [stored |-> TRUE, source |-> call.params.body]]
    [] call.method = "update" /\ IsStored(d, call.params.id) ->
         [d EXCEPT ![call.params.id].source = Merge(@, call.params.doc)]
    [] call.method = "delete" /\ IsStored(d, call.params.id) ->
         [d EXCEPT ![call.params.id] = NoDoc]
    [] OTHER -> d

SessionReceive(route, id, attrs) ==
  /\ route = "create" => nextId <= Len(StoreIds)
  /\ Receive(Session, route, id, attrs)

StoreRespond ==
  /\ reqs[Session].pc = "awaiting"
  /\ reqs' = [reqs EXCEPT
                ![Session].pc = "settled",
                ![Session].client =
                   Fulfilled(StoreResponse(docs, nextId, reqs[Session].call))]
  /\ docs' = StoreDocs(docs, nextId, reqs[Session].call)
  /\ nextId' = IF reqs[Session].call.method = "index"
               THEN nextId + 1 ELSE nextId
  /\ UNCHANGED <<resource, last>>

SessionResume == Resume(Session)

\* the session remembers its previous request when it starts the next one
SessionClose ==
  /\ reqs[Session].pc = "done"
  /\ reqs' = [reqs EXCEPT ![Session] = Idle]
  /\ last' = [last EXCEPT ![Session] = reqs[Session]]
  /\ UNCHANGED <<resource, docs, nextId>>

StoreNext ==
  \/ \E route \in Routes :
       \E id \in RouteIds(route), attrs \in RouteAttrs(route) :
         SessionReceive(route, id, attrs)
  \/ StoreRespond
  \/ SessionResume
  \/ SessionClose

StoreSpec == Init /\ [][StoreNext]_vars

-----------------------------------------------------------------------------
(* Properties *)

Done(q) == q.pc = "done"

Settled(q) == q.pc = "settled"

\* the client's promise was fulfilled with a response of the shape the
\* method answers with
WellFormed(q) ==
  /\ q.client.state = "fulfilled"
  /\ q.route = "index" => "hits" \in DOMAIN q.client.value

\* the store reports the id as not found
NotFound(q) ==
  /\ q.client.state = "fulfilled"
  /\ CASE q.route \in {"show", "destroy"} -> ~IsFound(q.client.value)
       [] q.route = "update" -> ~HasId(q.client.value)
       [] OTHER -> FALSE

NotFoundReply == Reply(404, NoneV)

\* C1: on GET, POST and DELETE /posts/:id, when the store reports the id as
\* not found the request is answered, and answered with 404 and nothing else
C1_NotFoundYields404 ==
  /\ [](\A r \in Reqs :
          Done(reqs[r]) /\ NotFound(reqs[r])
            => reqs[r].replies = <<NotFoundReply>>)
  /\ \A r \in Reqs :
       (Settled(reqs[r]) /\ NotFound(reqs[r]))
         ~> (Done(reqs[r]) /\ reqs[r].replies = <<NotFoundReply>>)

C1_Witness ==
  \E r \in Reqs :
    /\ Done(reqs[r]) /\ reqs[r].route = "update"
    /\ reqs[r].client = Fulfilled(EmptyObject)
    /\ reqs[r].replies = <<NotFoundReply>>

C3_CreateThenShow ==
  LET q == reqs[Session]
      c == last[Session]
  IN (/\ Done(q) /\ q.route = "show"
      /\ c.route = "create" /\ c.outcome.state = "fulfilled"
      /\ q.id = c.outcome.value.post.id)
       => q.outcome =
            Fulfilled(PostV(Merge(c.attrs, [id |-> c.client.value._id])))

\* C4: the id of the post that create and update resolve is the _id of the
\* store's response
C4_IdAssignedByStore ==
  \A r \in Reqs :
    (/\ Done(reqs[r]) /\ reqs[r].route \in {"create", "update"}
     /\ reqs[r].outcome.state = "fulfilled")
      => reqs[r].outcome.value.post.id = Prop(reqs[r].client.value, "_id")

\* C5: index resolves to a sequence with one post per hit of the response,
\* also for zero hits and for one hit, and that sequence is the reply's body
C5_IndexIsSequence ==
  \A r \in Reqs :
    (Done(reqs[r]) /\ reqs[r].route = "index" /\ WellFormed(reqs[r]))
      => /\ reqs[r].outcome.state = "fulfilled"
         /\ reqs[r].outcome.value.t = "posts"
         /\ Len(reqs[r].outcome.value.posts)
              = Len(reqs[r].client.value.hits.hits)
         /\ Len(reqs[r].replies) = 1
         /\ reqs[r].replies[1].body.t = "posts"
         /\ Len(reqs[r].replies[1].body.posts)
              = Len(reqs[r].client.value.hits.hits)

C5_Witness ==
  \E r \in Reqs :
    /\ Done(reqs[r]) /\ reqs[r].route = "index" /\ WellFormed(reqs[r])
    /\ Len(reqs[r].client.value.hits.hits) = 1
    /\ reqs[r].outcome.value.t = "posts"
    /\ Len(reqs[r].outcome.value.posts) = 1

\* C6: the k-th post of index has the k-th hit's _id as id and, for every
\* other field, the value of the k-th hit's _source, and no further field
C6_IndexTranslatesHits ==
  \A r \in Reqs :
    (Done(reqs[r]) /\ reqs[r].route = "index" /\ WellFormed(reqs[r]))
      => LET hits == reqs[r].client.value.hits.hits
             posts == reqs[r].outcome.value.posts
         IN /\ DOMAIN posts = DOMAIN hits
            /\ \A k \in DOMAIN hits :
                 /\ DOMAIN posts[k] = DOMAIN hits[k]._source \cup {"id"}
                 /\ posts[k].id = hits[k]._id
                 /\ \A f \in DOMAIN hits[k]._source \ {"id"} :
                      posts[k][f] = hits[k]._source[f]

C6_Witness ==
  \E r \in Reqs :
    /\ Done(reqs[r]) /\ reqs[r].route = "index" /\ WellFormed(reqs[r])
    /\ Len(reqs[r].client.value.hits.hits) = 2
    /\ "id" \in DOMAIN reqs[r].client.value.hits.hits[2]._source
    /\ reqs[r].client.value.hits.hits[1]._id = "A1"
    /\ reqs[r].outcome.value.posts[2].id = "A2"

\* C7: show resolves to the _source with an id when the response has found
\* true, and otherwise rejects with the requested id
C7_ShowRejectsWithRequestedId ==
  \A r \in Reqs :
    (Done(reqs[r]) /\ reqs[r].route = "show"
       /\ reqs[r].client.state = "fulfilled")
      => IF IsFound(reqs[r].client.value)
         THEN /\ reqs[r].outcome.state = "fulfilled"
              /\ reqs[r].outcome.value.t = "post"
              /\ "id" \in DOMAIN reqs[r].outcome.value.post
              /\ \A f \in DOMAIN reqs[r].client.value._source \ {"id"} :
                   reqs[r].outcome.value.post[f]
                     = reqs[r].client.value._source[f]
         ELSE reqs[r].outcome = Rejected(IdV(reqs[r].id))

\* C8: update resolves to attrs with the id exactly when the response
\* carries an _id; otherwise it rejects with the requested id and the
\* server answers 404
C8_UpdateResult ==
  \A r \in Reqs :
    (Done(reqs[r]) /\ reqs[r].route = "update"
       /\ reqs[r].client.state = "fulfilled")
      => IF HasId(reqs[r].client.value)
         THEN \/ reqs[r].outcome =
                   Fulfilled(PostV(Merge(reqs[r].attrs,
                                         [id |-> reqs[r].client.value._id])))
              \/ reqs[r].outcome =
                   Fulfilled(PostV(Merge(reqs[r].attrs,
                                         [id |-> reqs[r].id])))
         ELSE /\ reqs[r].outcome = Rejected(IdV(reqs[r].id))
              /\ reqs[r].replies = <<NotFoundReply>>

\* C9: destroy resolves with the bare requested id exactly when the delete
\* response has found true, and rejects with the requested id otherwise
C9_DestroyResult ==
  \A r \in Reqs :
    (Done(reqs[r]) /\ reqs[r].route = "destroy"
       /\ reqs[r].client.state = "fulfilled")
      => IF reqs[r].client.value.found
         THEN reqs[r].outcome = Fulfilled(IdV(reqs[r].id))
         ELSE reqs[r].outcome = Rejected(IdV(reqs[r].id))

C9_Witness ==
  \E r \in Reqs :
    /\ Done(reqs[r]) /\ reqs[r].route = "destroy"
    /\ reqs[r].client.state = "fulfilled" /\ reqs[r].client.value.found
    /\ reqs[r].client.value._id # reqs[r].id
    /\ reqs[r].outcome = Fulfilled(IdV(reqs[r].id))

\* C10: create resolves to attrs with the _id the store assigned as id, and
\* POST /posts answers 201 with that value as body
C10_CreateResult ==
  \A r \in Reqs :
    (Done(reqs[r]) /\ reqs[r].route = "create"
       /\ reqs[r].client.state = "fulfilled" /\ HasId(reqs[r].client.value))
      => LET post == Merge(reqs[r].attrs, [id |-> reqs[r].client.value._id])
         IN /\ reqs[r].outcome = Fulfilled(PostV(post))
            /\ reqs[r].replies = <<Reply(201, PostV(post))>>

\* the client call each action is to make, with the index and the type given
\* to the constructor
ExpectedCall(q) ==
  CASE q.route = "index" ->
         [method |-> "search",
          params |-> [index |-> "node_api", type |-> "posts"]]
    [] q.route = "create" ->
         [method |-> "index",
          params |-> [index |-> "node_api", type |-> "posts",
                      body |-> q.attrs]]
    [] q.route = "show" ->
         [method |-> "get",
          params |-> [index |-> "node_api", type |-> "posts", id |-> q.id]]
    [] q.route = "update" ->
         [method |-> "update",
          params |-> [index |-> "node_api", type |-> "posts", id |-> q.id,
                      doc |-> q.attrs]]
    [] q.route = "destroy" ->
         [method |-> "delete",
          params |-> [index |-> "node_api", type |-> "posts", id |-> q.id]]

\* C11: every action calls the matching client method exactly once, with
\* index, type and its own body, id or doc and nothing else
C11_ClientCalls ==
  \A r \in Reqs :
    reqs[r].pc # "idle" => reqs[r].calls = <<ExpectedCall(reqs[r])>>

C11_Witness ==
  \E r \in Reqs :
    /\ reqs[r].pc = "awaiting" /\ reqs[r].route = "update"
    /\ reqs[r].attrs = [author |-> "Rogers"]
    /\ Len(reqs[r].calls) = 1
    /\ reqs[r].calls[1].method = "update"
    /\ reqs[r].calls[1].params.doc = [author |-> "Rogers"]
    /\ reqs[r].calls[1].params.index = "node_api"

SuccessStatus(route) == IF route = "create" THEN 201 ELSE 200

\* C12 as claimed: on each of the five bindings a fulfilled controller
\* promise is answered with the success status and the resolved value as body
C12_SuccessReplyAllRoutes ==
  \A r \in Reqs :
    (Done(reqs[r]) /\ reqs[r].outcome.state = "fulfilled")
      => reqs[r].replies =
           <<Reply(SuccessStatus(reqs[r].route),
                   BodyOf(reqs[r].outcome.value))>>

\* C12 as amended: the body is the resolved value on the four bindings other
\* than DELETE /posts/:id, whose reply is 200 with the body {id} made of the
\* path id instead of the bare id destroy resolved
C12_SuccessReply ==
  \A r \in Reqs :
    (Done(reqs[r]) /\ reqs[r].outcome.state = "fulfilled")
      => /\ Len(reqs[r].replies) = 1
         /\ reqs[r].replies[1].status = SuccessStatus(reqs[r].route)
         /\ IF reqs[r].route = "destroy"
            THEN reqs[r].replies[1].body = PostV([id |-> reqs[r].id])
            ELSE reqs[r].replies[1].body = BodyOf(reqs[r].outcome.value)

C12_Witness ==
  \E r \in Reqs :
    /\ Done(reqs[r]) /\ reqs[r].route = "create"
    /\ reqs[r].outcome = Fulfilled(PostV([id |-> "A2", author |-> "Rogers"]))
    /\ reqs[r].replies =
         <<Reply(201, PostV([id |-> "A2", author |-> "Rogers"]))>>

\* C13: when destroy fulfils, DELETE /posts/:id answers 200 with the body
\* {id} made of the id of the request path
C13_DeleteEchoesId ==
  \A r \in Reqs :
    (Done(reqs[r]) /\ reqs[r].route = "destroy"
       /\ reqs[r].outcome.state = "fulfilled")
      => reqs[r].replies = <<Reply(200, PostV([id |-> reqs[r].id]))>>

C13_Witness ==
  \E r \in Reqs :
    /\ Done(reqs[r]) /\ reqs[r].route = "destroy" /\ reqs[r].id = "c1"
    /\ reqs[r].outcome = Fulfilled(IdV("c1"))
    /\ reqs[r].replies = <<Reply(200, PostV([id |-> "c1"]))>>

\* C14: two requests of the same route with the same id and attrs whose
\* controller promises both reject get the same reply, 404 without a body,
\* whatever the two rejection values are
C14_RejectionValueHidden ==
  \A r1 \in Reqs, r2 \in Reqs :
    (/\ Done(reqs[r1]) /\ Done(reqs[r2])
     /\ reqs[r1].route \in {"show", "update", "destroy"}
     /\ reqs[r1].route = reqs[r2].route
     /\ reqs[r1].id = reqs[r2].id /\ reqs[r1].attrs = reqs[r2].attrs
     /\ reqs[r1].outcome.state = "rejected"
     /\ reqs[r2].outcome.state = "rejected")
      => /\ reqs[r1].replies = reqs[r2].replies
         /\ reqs[r1].replies = <<NotFoundReply>>

C14_Witness ==
  /\ Done(reqs["r1"]) /\ Done(reqs["r2"])
  /\ reqs["r1"].route = "show" /\ reqs["r2"].route = "show"
  /\ reqs["r1"].id = reqs["r2"].id
  /\ reqs["r1"].outcome = Rejected(IdV("A2"))
  /\ reqs["r2"].outcome = Rejected(ErrorV("store"))
  /\ reqs["r1"].replies = reqs["r2"].replies

\* a failure that is not a not-found: the client's promise is rejected, or
\* the parser throws on the response
OtherFailure(q) ==
  q.outcome.state = "rejected" /\ q.outcome.value.t = "error"

\* C15 as claimed: on none of the five routes is a status sent for a failure
\* other than not-found
C15_NoStatusForOtherFailures ==
  \A r \in Reqs :
    (Done(reqs[r]) /\ OtherFailure(reqs[r])) => reqs[r].replies = <<>>

\* C15 as amended: no status is sent for such a failure on GET /posts and
\* POST /posts; on the three /posts/:id routes it is answered with 404
C15_OtherFailures ==
  \A r \in Reqs :
    (Done(reqs[r]) /\ OtherFailure(reqs[r]))
      => IF reqs[r].route \in {"index", "create"}
         THEN reqs[r].replies = <<>>
         ELSE reqs[r].replies = <<NotFoundReply>>

C15_Witness ==
  \E r1 \in Reqs, r2 \in Reqs :
    /\ Done(reqs[r1]) /\ reqs[r1].route = "destroy"
    /\ reqs[r1].client = Rejected(ErrorV("store"))
    /\ reqs[r1].replies = <<NotFoundReply>>
    /\ Done(reqs[r2]) /\ reqs[r2].route = "index"
    /\ reqs[r2].outcome = Rejected(ErrorV("TypeError"))
    /\ reqs[r2].replies = <<>>

\* C16: a request makes at most one store call, has no reply while the
\* promise of that call is pending, and leaves that wait only when the
\* promise settles
C16_OneCallNoReplyWhilePending ==
  /\ [](\A r \in Reqs :
          /\ Len(reqs[r].calls) <= 1
          /\ reqs[r].pc \in {"idle", "awaiting"} => reqs[r].replies = <<>>)
  /\ [][\A r \in Reqs :
          reqs[r].pc = "awaiting"
            => \/ reqs'[r] = reqs[r]
               \/ /\ reqs'[r].pc = "settled"
                  /\ reqs'[r].client.state \in {"fulfilled", "rejected"}
                  /\ reqs'[r].calls = reqs[r].calls
                  /\ reqs'[r].replies = <<>>]_vars

C16_Witness ==
  \E r1 \in Reqs, r2 \in Reqs :
    /\ reqs[r1].pc = "awaiting" /\ Len(reqs[r1].calls) = 1
    /\ reqs[r1].replies = <<>>
    /\ Done(reqs[r2]) /\ Len(reqs[r2].replies) = 1

\* C17: two requests with the same route, id and attrs make the same store
\* call whatever else the server has handled or is handling, and with the
\* same store response they settle alike and get the same reply
C17_RequestsAreIsolated ==
  \A r1 \in Reqs, r2 \in Reqs :
    (/\ reqs[r1].pc # "idle" /\ reqs[r2].pc # "idle"
     /\ reqs[r1].route = reqs[r2].route
     /\ reqs[r1].id = reqs[r2].id /\ reqs[r1].attrs = reqs[r2].attrs)
      => /\ reqs[r1].calls = reqs[r2].calls
         /\ (Done(reqs[r1]) /\ Done(reqs[r2])
               /\ reqs[r1].client = reqs[r2].client)
              => /\ reqs[r1].outcome = reqs[r2].outcome
                 /\ reqs[r1].replies = reqs[r2].replies

C17_Witness ==
  /\ reqs["r1"].pc = "awaiting" /\ reqs["r1"].route = "index"
  /\ Done(reqs["r2"]) /\ reqs["r2"].route = "update"
  /\ reqs["r2"].id = "A1" /\ reqs["r2"].attrs = [author |-> "Smith"]
  /\ reqs["r1"].calls =
       <<[method |-> "search",
          params |-> [index |-> "node_api", type |-> "posts"]]>>

\* C18: after parsing, the store response and the caller's attrs are as they
\* were before
C18_ParserLeavesArguments ==
  \A r \in Reqs :
    (Done(reqs[r]) /\ reqs[r].returned.state = "fulfilled")
      => /\ reqs[r].after.res = reqs[r].client.value
         /\ reqs[r].after.attrs = reqs[r].attrs

\* C19: the promise a Resource method returns settles as the client's
\* promise did, value or reason unchanged, and the id and attrs of the call
\* are in the client's parameters as they were given, also when empty or
\* undefined
C19_ResourcePassesThrough ==
  /\ \A r \in Reqs :
       /\ Done(reqs[r]) => reqs[r].returned = reqs[r].client
       /\ reqs[r].route \in {"show", "update", "destroy"}
            => reqs[r].call.params.id = reqs[r].id
       /\ reqs[r].route = "create" => reqs[r].call.params.body = reqs[r].attrs
       /\ reqs[r].route = "update" => reqs[r].call.params.doc = reqs[r].attrs
  /\ ResourceGet(resource, Undefined).params.id = Undefined
  /\ ResourceDelete(resource, Undefined).params.id = Undefined
  /\ ResourceCreate(resource, Undefined).params.body = Undefined
  /\ ResourceUpdate(resource, Undefined, Undefined).params.doc = Undefined

C19_Witness ==
  \E r1 \in Reqs, r2 \in Reqs :
    /\ Done(reqs[r1]) /\ reqs[r1].route = "create"
    /\ reqs[r1].attrs = EmptyObject
    /\ reqs[r1].call.params.body = EmptyObject
    /\ reqs[r1].returned = Fulfilled([_id |-> "A1"])
    /\ Done(reqs[r2]) /\ reqs[r2].route = "show"
    /\ reqs[r2].client = Rejected(ErrorV("store"))
    /\ reqs[r2].returned = Rejected(ErrorV("store"))

\* post has the fields of from other than id with their values, and besides
\* them only id
PassesThrough(post, from) ==
  /\ DOMAIN post = (DOMAIN from) \cup {"id"}
  /\ \A f \in (DOMAIN from) \ {"id"} : post[f] = from[f]

\* C20: the post that create and update resolve has the attributes of attrs
\* other than id unchanged, the posts of show and index those of the stored
\* source, and no post has a further attribute besides id
C20_AttributesPassThrough ==
  \A r \in Reqs :
    (Done(reqs[r]) /\ reqs[r].outcome.state = "fulfilled")
      => CASE reqs[r].route \in {"create", "update"} ->
                PassesThrough(reqs[r].outcome.value.post, reqs[r].attrs)
           [] reqs[r].route = "show" ->
                PassesThrough(reqs[r].outcome.value.post,
                              reqs[r].client.value._source)
           [] reqs[r].route = "index" ->
                \A k \in DOMAIN reqs[r].outcome.value.posts :
                  PassesThrough(reqs[r].outcome.value.posts[k],
                                reqs[r].client.value.hits.hits[k]._source)
           [] OTHER -> TRUE

C20_Witness ==
  \E r \in Reqs :
    /\ Done(reqs[r]) /\ reqs[r].route = "create"
    /\ reqs[r].attrs = [id |-> "c1", author |-> "Rogers"]
    /\ reqs[r].outcome.state = "fulfilled"
    /\ reqs[r].outcome.value.post.author = "Rogers"
    /\ DOMAIN reqs[r].outcome.value.post = {"id", "author"}

\* the controller before the refactoring, constructed as start.js constructs
\* the controller
InlinePosts == InlineNew(Client, "node_api", "posts")

\* C21: for every action, arguments and store response, the controller made
\* of Resource and Parser issues the client call of the inline controller it
\* replaced and settles as that one does, with the same value or reason
C21_RefactoringPreserves ==
  \A r \in Reqs :
    /\ reqs[r].pc # "idle"
         => reqs[r].calls =
              InlineCalls(InlinePosts, reqs[r].route, reqs[r].id,
                          reqs[r].attrs)
    /\ Done(reqs[r])
         => reqs[r].outcome =
              InlineThen(reqs[r].route, reqs[r].id, reqs[r].attrs,
                         reqs[r].client)

\* the one controller invocation a request is to cause
ExpectedInvocation(q) ==
  CASE q.route = "index" -> [action |-> "index"]
    [] q.route = "create" -> [action |-> "create", attrs |-> q.attrs]
    [] q.route = "show" -> [action |-> "show", id |-> q.id]
    [] q.route = "update" ->
         [action |-> "update", id |-> q.id, attrs |-> q.attrs]
    [] q.route = "destroy" -> [action |-> "destroy", id |-> q.id]

\* C22: a request causes exactly one controller invocation: index without
\* arguments, create with body.post, show and destroy with the path id,
\* update with the path id and body.post
C22_ControllerInvokedOnce ==
  \A r \in Reqs :
    reqs[r].pc # "idle" => reqs[r].invoked = <<ExpectedInvocation(reqs[r])>>

C22_Witness ==
  \E r1 \in Reqs, r2 \in Reqs :
    /\ Done(reqs[r1]) /\ reqs[r1].route = "update" /\ reqs[r1].id = "c1"
    /\ reqs[r1].attrs = [author |-> "Smith"]
    /\ reqs[r1].invoked =
         <<[action |-> "update", id |-> "c1", attrs |-> [author |-> "Smith"]]>>
    /\ reqs[r2].pc = "awaiting" /\ reqs[r2].route = "index"
    /\ reqs[r2].invoked = <<[action |-> "index"]>>

\* C23: the started server's controller has a client, and every store call
\* made for a request carries the index 'node_api' and the type 'posts'
C23_StartWiresClient ==
  /\ resource.client # Undefined
  /\ resource.client = Client
  /\ \A r \in Reqs :
       \A k \in DOMAIN reqs[r].calls :
         /\ reqs[r].calls[k].params.index = "node_api"
         /\ reqs[r].calls[k].params.type = "posts"

C23_Witness ==
  \E r \in Reqs :
    /\ resource.client = Client
    /\ reqs[r].pc = "settled" /\ reqs[r].route = "destroy"
    /\ Len(reqs[r].calls) = 1
    /\ reqs[r].calls[1].method = "delete"
    /\ reqs[r].calls[1].params.index = "node_api"
    /\ reqs[r].calls[1].params.type = "posts"

\* the promise of index or create was rejected
ListRouteRejected(q) ==
  Done(q) /\ q.route \in {"index", "create"} /\ q.outcome.state = "rejected"

\* C24: when the promise of index or create rejects, GET /posts and POST
\* /posts send no status, and the request stays without a reply
C24_NoFailureMapping ==
  /\ [](\A r \in Reqs : ListRouteRejected(reqs[r]) => reqs[r].replies = <<>>)
  /\ [][\A r \in Reqs :
          ListRouteRejected(reqs[r])
            => \/ reqs'[r] = reqs[r]
               \/ reqs'[r].pc = "idle"]_vars

C24_Witness ==
  \E r1 \in Reqs, r2 \in Reqs :
    /\ Done(reqs[r1]) /\ reqs[r1].route = "create"
    /\ reqs[r1].outcome = Rejected(ErrorV("store"))
    /\ reqs[r1].replies = <<>>
    /\ Done(reqs[r2]) /\ reqs[r2].route = "index"
    /\ reqs[r2].outcome = Rejected(ErrorV("store"))
    /\ reqs[r2].replies = <<>>

\* the parameters a method adds to the base descriptor
OwnParams(route) ==
  CASE route = "index" -> {}
    [] route = "create" -> {"body"}
    [] route = "update" -> {"id", "doc"}
    [] OTHER -> {"id"}

\* C25: whatever calls were made on the Resource, its base descriptor is the
\* {index, type} of its construction, and the parameters of a call are that
\* descriptor and the call's own id, body or doc, never those of another call
C25_BaseParamsKept ==
  /\ resource.baseParams = [index |-> "node_api", type |-> "posts"]
  /\ \A r \in Reqs :
       reqs[r].pc # "idle"
         => LET params == reqs[r].call.params
            IN /\ DOMAIN params = {"index", "type"} \cup OwnParams(reqs[r].route)
               /\ "id" \in DOMAIN params => params.id = reqs[r].id
               /\ "body" \in DOMAIN params => params.body = reqs[r].attrs
               /\ "doc" \in DOMAIN params => params.doc = reqs[r].attrs

C25_Witness ==
  /\ Done(reqs["r1"]) /\ reqs["r1"].route = "update"
  /\ reqs["r1"].id = "c1" /\ reqs["r1"].attrs = [author |-> "Rogers"]
  /\ reqs["r2"].pc = "awaiting" /\ reqs["r2"].route = "create"
  /\ reqs["r2"].call.params =
       [index |-> "node_api", type |-> "posts", body |-> EmptyObject]
  /\ resource.baseParams = [index |-> "node_api", type |-> "posts"]

\* C26: for a hit and a found get response with the same _id and _source,
\* the post index makes of the hit is the post show resolves, also when the
\* _source has an id of its own
C26_IndexAndShowAgree ==
  \A r1 \in Reqs, r2 \in Reqs :
    (/\ Done(reqs[r1]) /\ reqs[r1].route = "index" /\ WellFormed(reqs[r1])
     /\ Done(reqs[r2]) /\ reqs[r2].route = "show"
     /\ reqs[r2].client.state = "fulfilled"
     /\ IsFound(reqs[r2].client.value))
      => \A k \in DOMAIN reqs[r1].client.value.hits.hits :
           LET hit == reqs[r1].client.value.hits.hits[k]
               res == reqs[r2].client.value
           IN (hit._id = res._id /\ hit._source = res._source)
                => reqs[r2].outcome =
                     Fulfilled(PostV(reqs[r1].outcome.value.posts[k]))

\* C27: parsing a search response that was parsed before gives the result
\* of the first parsing and leaves the response as the first parsing left it
C27_ParseSearchIdempotent ==
  \A r \in Reqs :
    (Done(reqs[r]) /\ reqs[r].route = "index"
       /\ reqs[r].returned.state = "fulfilled")
      => /\ parseSearchResult(reqs[r].after.res) = reqs[r].outcome
         /\ ParserEffect("index", reqs[r].after.attrs, reqs[r].after.res)
              = reqs[r].after

C27_Witness ==
  \E r \in Reqs :
    /\ Done(reqs[r]) /\ reqs[r].route = "index" /\ WellFormed(reqs[r])
    /\ Len(reqs[r].client.value.hits.hits) = 2
    /\ reqs[r].client.value.hits.hits[1]._source = [author |-> "Smith"]
    /\ reqs[r].after.res.hits.hits[1]._source
         = [id |-> "A1", author |-> "Smith"]
    /\ parseSearchResult(reqs[r].after.res) = reqs[r].outcome

\* the session's request is a show that follows a successful update of the
\* same id
ShowAfterUpdate ==
  /\ Done(reqs[Session]) /\ reqs[Session].route = "show"
  /\ last[Session].route = "update"
  /\ last[Session].outcome.state = "fulfilled"
  /\ reqs[Session].id = last[Session].id

\* C28 as claimed: for every attrs, the post a successful update resolves is
\* the post that the show of the same id right after it resolves
C28_UpdateThenShowAnyAttrs ==
  ShowAfterUpdate => reqs[Session].outcome = last[Session].outcome

\* C28 as amended: the two posts are equal when attrs names every field of
\* the stored document
C28_UpdateThenShow ==
  (ShowAfterUpdate
     /\ DOMAIN docs[reqs[Session].id].source = DOMAIN last[Session].attrs)
    => reqs[Session].outcome = last[Session].outcome

C28_Witness ==
  /\ ShowAfterUpdate
  /\ last[Session].attrs = [author |-> "Rogers"]
  /\ DOMAIN docs[reqs[Session].id].source = {"author"}
  /\ reqs[Session].outcome =
       Fulfilled(PostV([id |-> "A1", author |-> "Rogers"]))
  /\ last[Session].outcome = reqs[Session].outcome

====
